---- MODULE Spec2Model ----
(***************************************************************************)
(* A model of db/db_bench.cc: the LevelDB benchmark driver.                *)
(*                                                                         *)
(* Benchmark::Run walks the comma-separated list FLAGS_benchmarks, and     *)
(* for every name calls Start(), the handler of that name, and Stop(name). *)
(* The handlers drive the storage engine (DB, Iterator, WriteBatch), the   *)
(* value generator (RandomGenerator) and the recorder (Start,              *)
(* FinishedSingleOp, Stop).  The engine, the histogram and the random      *)
(* number generator live outside db_bench.cc and are modelled by their     *)
(* contracts.  Wall-clock time (start_, last_op_finish_) is left out: no   *)
(* branch of the driver other than the "long op" warning reads it.         *)
(***************************************************************************)
EXTENDS Integers, Sequences, FiniteSets, TLC

(***************************************************************************)
(* Bounds of the model.                                                    *)
(***************************************************************************)
\* largest --num
MaxNum == 2
\* longest --benchmarks list
MaxPhases == 3
\* most Generate calls of the generator-only specification
MaxCalls == 4
\* the sizes of db_bench.cc, scaled down so that the model's runs reach them:
\* 1048576, the floor of the generator's buffer (line 81)
BufferFloor == 5
\* 100, the length of one compressible fragment (line 84)
FragmentLen == 2
\* 100, the divisor of fillsync's entry count (line 322)
FillSyncDivisor == 2
\* 1000, the divisor of fill100K's entry count (line 324)
Fill100KDivisor == 2
\* 100 * 1000, the value size of fill100K (line 324)
Fill100KValueSize == 3

\* 7, config::kNumLevels, the number of levels of the engine (line 429)
kNumLevels == 4
\* most files the engine's own work leaves at a level
MaxFiles == 2
\* most FinishedSingleOp calls of the recorder-only specification: past the
\* second line of the last cadence
MaxDone == 201000
\* most Start calls of the recorder-only specification
MaxStarts == 2

\* the values of --value_size; all fit the generator's buffer
ValueSizes == {1, 2}

(***************************************************************************)
(* Program constants.                                                      *)
(***************************************************************************)
\* "%016d" (lines 379, 420)
KeyWidth == 16
\* the first value of next_report_ (line 203)
FirstReport == 100

\* the names Run recognises (lines 314-333)
WriteNames == {"fillseq", "fillrandom", "overwrite", "fillsync", "fill100K"}
ReadNames == {"readseq", "readreverse", "readrandom"}
KnownNames == WriteNames \cup ReadNames \cup {"compact", "heapprofile"}
\* the names Run has no branch for: "sync" is one of the names the comment above
\* FLAGS_benchmarks lists (line 31), "" is what an empty list or a trailing comma
\* yields
UnknownNames == {"sync", ""}
PhaseNames == KnownNames \cup UnknownNames

VARIABLES
  \* the flags main sets
  FLAGS_num, FLAGS_value_size, FLAGS_histogram,
  \* Run: whether the list pointer is NULL, the names taken so far, the name
  \* and the Write arguments of the benchmark at hand, the place in the code,
  \* the loop counter, the iterator, and how the process ended
  benchmarks, phase_no, name, args, pc, i, iter, exit_status,
  \* the members of Benchmark (gen_.pos_ is pos_; rand_ counts the draws)
  cache_, db_, num_, heap_counter_, pos_, rand_,
  bytes_, message_, hist_, done_, next_report_,
  \* the database: key -> value
  store,
  \* the engine's files: whether the memtable holds writes, and the number of
  \* files at each level
  mem, levels,
  \* Compact's local
  max_level_with_files,
  \* what an observer of the run sees
  ops,           \* FinishedSingleOp calls since Run's Start() of this benchmark
  writes,        \* the DB::Write calls of this benchmark, and whether each was ok
  visited,       \* the keys an iterator of this benchmark has visited
  seqVisited,    \* the keys of the last finished readseq, while no write followed
  atStart,       \* store, pos_ and rand_ when this benchmark began
  prev,          \* the benchmark that ran before this one
  starts,        \* Start() calls since the last Stop
  stops,         \* Stop calls so far
  lastStop,      \* the name the last Stop printed
  warned,        \* "unknown benchmark" warnings of this benchmark
  released,      \* what the destructor has deleted, in order
  engine_calls,  \* calls into the engine by this benchmark
  genlog,        \* the Generate calls of the generator-only specification
  reported,      \* done_ as the last progress line since Start() printed it
  compacted,     \* levels when the last compact returned, while no write followed
  reopens,       \* the DestroyDB and Open calls of this benchmark
  not_found      \* the keys ReadRandom of this benchmark looked up in vain

flags == <<FLAGS_num, FLAGS_value_size, FLAGS_histogram>>
recorder == <<bytes_, message_, hist_, done_, next_report_, reported>>
lsm == <<mem, levels, max_level_with_files, compacted>>
members == <<cache_, db_, num_, heap_counter_, pos_, rand_>>
vars == <<flags, benchmarks, phase_no, name, args, pc, i, iter, exit_status,
          members, recorder, store, ops, writes, visited, seqVisited, atStart,
          prev, starts, stops, lastStop, warned, released, engine_calls, genlog,
          lsm, reopens, not_found>>

(***************************************************************************)
(* Keys: snprintf(key, sizeof(key), "%016d", k).                           *)
(***************************************************************************)
RECURSIVE Digits(_)
Digits(k) == IF k < 10 THEN <<k>> ELSE Append(Digits(k \div 10), k % 10)

RECURSIVE ZeroPad(_, _)
ZeroPad(s, w) == IF Len(s) >= w THEN s ELSE ZeroPad(<<0>> \o s, w)

\* "%d" for "%016d"
FormatKey_Unpadded(k) == Digits(k)

FormatKey(k) == ZeroPad(Digits(k), KeyWidth)

\* strlen(key)
KeyLen(key) == Len(key)

(***************************************************************************)
(* The engine's contract: an ordered map, iterated in bytewise key order.  *)
(***************************************************************************)
RECURSIVE KeyLess(_, _)
KeyLess(a, b) ==
  IF a = <<>> THEN b # <<>>
  ELSE IF b = <<>> THEN FALSE
  ELSE IF Head(a) # Head(b) THEN Head(a) < Head(b)
  ELSE KeyLess(Tail(a), Tail(b))

RECURSIVE SortedKeys(_)
SortedKeys(S) ==
  IF S = {} THEN <<>>
  ELSE LET m == CHOOSE x \in S : \A y \in S \ {x} : KeyLess(x, y)
       IN <<m>> \o SortedKeys(S \ {m})

Keys == DOMAIN store
EmptyStore == [k \in {} |-> 0]

\* DB::Write of a batch of puts, applied in order
RECURSIVE ApplyBatch(_, _)
ApplyBatch(s, batch) ==
  IF batch = <<>> THEN s
  ELSE LET p == Head(batch)
       IN ApplyBatch([k \in DOMAIN s \cup {p.key} |-> IF k = p.key THEN p.value ELSE s[k]],
                     Tail(batch))

\* Iterator: a position in the ordered keys; 0 and Len + 1 are "not Valid"
IterValid(pos) == pos \in 1..Cardinality(Keys)
IterKey(pos) == SortedKeys(Keys)[pos]
IterValue(pos) == store[IterKey(pos)]
SeekToFirst == 1
SeekToLast == Cardinality(Keys)

(***************************************************************************)
(* RandomGenerator                                                         *)
(***************************************************************************)
\* data_.size() after the constructor: fragments are appended while the size
\* is below the floor
RECURSIVE Fill(_)
Fill(size) == IF size < BufferFloor THEN Fill(size + FragmentLen) ELSE size
DataSize == Fill(0)

\* if (pos_ + len > data_.size())
GenerateWraps(len) == pos_ + len > DataSize
\* assert(len < data_.size())
GenerateAssert(len) == len < DataSize
\* pos_ after the call
GeneratePos(len) == IF GenerateWraps(len) THEN len ELSE pos_ + len
\* Slice(data_.data() + pos_ - len, len)
GenerateSlice(len) == [off |-> GeneratePos(len) - len, len |-> len]
\* how a call can end: "ok" (the slice is returned), "abort" (the assertion
\* fails in a build with assertions), "crash" (without assertions the slice
\* reaches past data_, and reading it is undefined: it may fault or not)
GenerateOutcomes(len) ==
  IF ~GenerateWraps(len) \/ GenerateAssert(len) THEN {"ok"}
  ELSE IF len <= DataSize THEN {"abort", "ok"}
  ELSE {"abort", "ok", "crash"}

(***************************************************************************)
(* The recorder: Start, FinishedSingleOp, Stop.  Each maps the recorder's  *)
(* fields, as a record, to their values after the call.                    *)
(***************************************************************************)
Recorder == [bytes_ |-> bytes_, message_ |-> message_, hist_ |-> hist_,
             done_ |-> done_, next_report_ |-> next_report_, reported |-> reported]

SetRecorder(r) ==
  /\ bytes_' = r.bytes_
  /\ message_' = r.message_
  /\ hist_' = r.hist_
  /\ done_' = r.done_
  /\ next_report_' = r.next_report_
  /\ reported' = r.reported

\* Start without hist_.Clear()
Start_KeepHist(r) ==
  [bytes_ |-> 0, message_ |-> "", hist_ |-> r.hist_, done_ |-> 0,
   next_report_ |-> FirstReport, reported |-> 0]

\* bytes_ = 0; message_.clear(); hist_.Clear(); done_ = 0; next_report_ = 100
Start(r) ==
  [bytes_ |-> 0, message_ |-> "", hist_ |-> 0, done_ |-> 0,
   next_report_ |-> FirstReport, reported |-> 0]

\* the first cadence kept up to and with 1000
NextReport_Inclusive(n) ==
  IF n <= 1000 THEN n + 100
  ELSE IF n < 10000 THEN n + 1000
  ELSE IF n < 100000 THEN n + 10000
  ELSE n + 100000

\* the step of next_report_ once done_ has reached it
NextReport(n) ==
  IF n < 1000 THEN n + 100
  ELSE IF n < 10000 THEN n + 1000
  ELSE IF n < 100000 THEN n + 10000
  ELSE n + 100000

\* hist_.Add(micros) when FLAGS_histogram; done_++; the progress cadence, and
\* the line "... finished %d ops" with done_
FinishedSingleOp(r) ==
  [r EXCEPT !.hist_ = IF FLAGS_histogram THEN @ + 1 ELSE @,
            !.done_ = @ + 1,
            !.next_report_ = IF r.done_ + 1 >= @ THEN NextReport(@) ELSE @,
            !.reported = IF r.done_ + 1 >= r.next_report_ THEN r.done_ + 1 ELSE @]

\* if (done_ < 1) done_ = 1; the rate is put before the message when bytes_ > 0
Stop(r) ==
  [r EXCEPT !.done_ = IF @ < 1 THEN 1 ELSE @,
            !.message_ = IF r.bytes_ > 0
                         THEN (IF @ # "" THEN "MB/s " \o @ ELSE "MB/s")
                         ELSE @]

(***************************************************************************)
(* The engine's levels, as Compact drives them.  A level changes by the    *)
(* calls of the driver only.                                               *)
(***************************************************************************)
Levels == 0..(kNumLevels - 1)
NoFiles == [l \in Levels |-> 0]
NoCompact == [valid |-> FALSE, levels |-> NoFiles]

\* "~", in the code the digits of a key have: '0' is 0, '~' is 126 - 48
Tilde == <<78>>

\* DBImpl::TEST_CompactMemTable: a memtable that holds writes becomes one more
\* file of level 0
CompactMemTable(lv, m) == IF m THEN [lv EXCEPT ![0] = @ + 1] ELSE lv

\* whether every key of the database lies in [begin, end]
Covers(begin, end) ==
  \A k \in Keys : ~KeyLess(k, begin) /\ ~KeyLess(end, k)

\* DBImpl::TEST_CompactRange(level, begin, end): the files of the level that
\* overlap the range are merged into the next level; how many files the
\* merge writes is the engine's choice.  An empty level, and the last level,
\* stay as they are.
CompactRange(lv, level, begin, end) ==
  IF level + 1 >= kNumLevels \/ lv[level] = 0 THEN {lv}
  ELSE {[lv EXCEPT ![level] = left, ![level + 1] = n] :
          left \in (IF Covers(begin, end) THEN {0} ELSE 0..lv[level]),
          n \in 1..(lv[level] + lv[level + 1])}

\* the loop of Compact over the levels from `level` on:
\* if (db_->GetProperty(name, &v) && v > 0) max_level_with_files = level
RECURSIVE SearchLevels(_, _, _)
SearchLevels(lv, level, max) ==
  IF level < kNumLevels
  THEN SearchLevels(lv, level + 1, IF lv[level] > 0 THEN level ELSE max)
  ELSE max

\* int max_level_with_files = 1; for (int level = 1; ...)
MaxLevelWithFiles(lv) == SearchLevels(lv, 1, 1)

(***************************************************************************)
(* Benchmark                                                               *)
(***************************************************************************)
NoArgs == [sync |-> FALSE, order |-> "none", state |-> "none",
           num_entries |-> 0, value_size |-> 0]

\* overwrite run as a FRESH benchmark
WriteArgs_OverwriteFresh(n) ==
  IF n = "fillseq" THEN
    [sync |-> FALSE, order |-> "SEQUENTIAL", state |-> "FRESH",
     num_entries |-> num_, value_size |-> FLAGS_value_size]
  ELSE IF n = "fillrandom" THEN
    [sync |-> FALSE, order |-> "RANDOM", state |-> "FRESH",
     num_entries |-> num_, value_size |-> FLAGS_value_size]
  ELSE IF n = "overwrite" THEN
    [sync |-> FALSE, order |-> "RANDOM", state |-> "FRESH",
     num_entries |-> num_, value_size |-> FLAGS_value_size]
  ELSE IF n = "fillsync" THEN
    [sync |-> TRUE, order |-> "RANDOM", state |-> "FRESH",
     num_entries |-> num_ \div FillSyncDivisor, value_size |-> FLAGS_value_size]
  ELSE IF n = "fill100K" THEN
    [sync |-> FALSE, order |-> "RANDOM", state |-> "FRESH",
     num_entries |-> num_ \div Fill100KDivisor, value_size |-> Fill100KValueSize]
  ELSE NoArgs

\* write_options.sync left as the benchmark before set it
WriteArgs_StickySync(n) ==
  IF n = "fillseq" THEN
    [sync |-> args.sync, order |-> "SEQUENTIAL", state |-> "FRESH",
     num_entries |-> num_, value_size |-> FLAGS_value_size]
  ELSE IF n = "fillrandom" THEN
    [sync |-> args.sync, order |-> "RANDOM", state |-> "FRESH",
     num_entries |-> num_, value_size |-> FLAGS_value_size]
  ELSE IF n = "overwrite" THEN
    [sync |-> args.sync, order |-> "RANDOM", state |-> "EXISTING",
     num_entries |-> num_, value_size |-> FLAGS_value_size]
  ELSE IF n = "fillsync" THEN
    [sync |-> TRUE, order |-> "RANDOM", state |-> "FRESH",
     num_entries |-> num_ \div FillSyncDivisor, value_size |-> FLAGS_value_size]
  ELSE IF n = "fill100K" THEN
    [sync |-> args.sync, order |-> "RANDOM", state |-> "FRESH",
     num_entries |-> num_ \div Fill100KDivisor, value_size |-> Fill100KValueSize]
  ELSE [NoArgs EXCEPT !.sync = args.sync]

\* the arguments Run passes to Write for each write benchmark
WriteArgs(n) ==
  IF n = "fillseq" THEN
    [sync |-> FALSE, order |-> "SEQUENTIAL", state |-> "FRESH",
     num_entries |-> num_, value_size |-> FLAGS_value_size]
  ELSE IF n = "fillrandom" THEN
    [sync |-> FALSE, order |-> "RANDOM", state |-> "FRESH",
     num_entries |-> num_, value_size |-> FLAGS_value_size]
  ELSE IF n = "overwrite" THEN
    [sync |-> FALSE, order |-> "RANDOM", state |-> "EXISTING",
     num_entries |-> num_, value_size |-> FLAGS_value_size]
  ELSE IF n = "fillsync" THEN
    [sync |-> TRUE, order |-> "RANDOM", state |-> "FRESH",
     num_entries |-> num_ \div FillSyncDivisor, value_size |-> FLAGS_value_size]
  ELSE IF n = "fill100K" THEN
    [sync |-> FALSE, order |-> "RANDOM", state |-> "FRESH",
     num_entries |-> num_ \div Fill100KDivisor, value_size |-> Fill100KValueSize]
  ELSE NoArgs

\* the branch of Run's if-chain a name takes
Handler(n) ==
  IF n \in WriteNames THEN "Write"
  ELSE IF n = "readseq" THEN "ReadSequential"
  ELSE IF n = "readreverse" THEN "ReadReverse"
  ELSE IF n = "readrandom" THEN "ReadRandom"
  ELSE IF n = "compact" THEN "Compact"
  ELSE IF n = "heapprofile" THEN "HeapProfile"
  ELSE "Unknown"

\* rand_.Next() % (FLAGS_num + 1)
RandomKeys_OneMore == 0..FLAGS_num

\* the values rand_.Next() % FLAGS_num can take
RandomKeys == 0..(FLAGS_num - 1)

\* exit(status), abort() and a fault all end the process where it stands: the
\* Benchmark object is a local of main, and none of them unwinds main's frame
Exit(status) ==
  /\ pc' = "exited"
  /\ exit_status' = status

\* the two deletes the other way round
Destructor_CacheFirst ==
  /\ db_' = "deleted"
  /\ cache_' = "deleted"
  /\ released' = released \o <<"cache_", "db_">>

\* ~Benchmark: delete db_; delete cache_
Destructor ==
  /\ db_' = "deleted"
  /\ cache_' = "deleted"
  /\ released' = released \o <<"db_", "cache_">>

NoSeq == [valid |-> FALSE, keys |-> <<>>]

\* the Benchmark constructor, after main has read the flags
Constructed ==
  /\ benchmarks = "list"
  /\ phase_no = 0
  /\ name = "<none>"
  /\ args = NoArgs
  /\ i = 0
  /\ iter = 0
  /\ exit_status = "running"
  /\ cache_ = "live"
  /\ db_ = "NULL"
  /\ num_ = FLAGS_num
  /\ heap_counter_ = 0
  /\ bytes_ = 0
  /\ message_ = ""
  /\ hist_ = 0
  /\ pos_ = 0
  /\ rand_ = 0
  /\ done_ = 0
  /\ next_report_ = 0
  /\ store = EmptyStore
  /\ ops = 0
  /\ writes = <<>>
  /\ visited = <<>>
  /\ seqVisited = NoSeq
  /\ atStart = [store |-> EmptyStore, pos_ |-> 0, rand_ |-> 0]
  /\ prev = "<none>"
  /\ starts = 0
  /\ stops = 0
  /\ lastStop = "<none>"
  /\ warned = 0
  /\ released = <<>>
  /\ engine_calls = 0
  /\ genlog = <<>>
  /\ reported = 0
  /\ mem = FALSE
  /\ levels = NoFiles
  /\ max_level_with_files = 0
  /\ compacted = NoCompact
  /\ reopens = <<>>
  /\ not_found = 0

Init ==
  /\ FLAGS_num \in 0..MaxNum
  /\ FLAGS_value_size \in ValueSizes
  /\ FLAGS_histogram \in BOOLEAN
  /\ Constructed
  /\ pc = "Run"

\* Run: PrintHeader(); Open();  DB::Open succeeds or fails
RunOpen ==
  /\ pc = "Run"
  /\ engine_calls' = engine_calls + 1
  /\ \/ /\ db_' = "open"
        /\ pc' = "next"
        /\ UNCHANGED exit_status
     \/ /\ Exit("exit1")
        /\ UNCHANGED db_
  /\ UNCHANGED <<flags, benchmarks, phase_no, name, args, i, iter, recorder, cache_,
                 num_, heap_counter_, pos_, rand_, store, ops, writes, visited,
                 seqVisited, atStart, prev, starts, stops, lastStop, warned,
                 released, genlog,
                 lsm, reopens, not_found>>

\* Run's loop head: the next name of the list (n; sep == NULL when it is the
\* last one), Start(), and the if-chain
NextPhase ==
  /\ pc = "next"
  /\ benchmarks # "NULL"
  /\ \E n \in PhaseNames, last \in BOOLEAN :
       /\ phase_no + 1 < MaxPhases \/ last
       /\ name' = n
       /\ benchmarks' = IF last THEN "NULL" ELSE "list"
  /\ phase_no' = phase_no + 1
  /\ SetRecorder(Start(Recorder))
  /\ args' = WriteArgs(name')
  /\ pc' = Handler(name')
  /\ i' = 0
  /\ iter' = 0
  /\ ops' = 0
  /\ writes' = <<>>
  /\ visited' = <<>>
  /\ atStart' = [store |-> store, pos_ |-> pos_, rand_ |-> rand_]
  /\ prev' = name
  /\ starts' = 1
  /\ engine_calls' = 0
  /\ warned' = 0
  /\ reopens' = <<>>
  /\ not_found' = 0
  /\ UNCHANGED <<flags, exit_status, members, store, seqVisited, stops, lastStop,
                 released, genlog,
                 lsm>>

\* the message Write leaves when it writes fewer entries than num_
WriteMessage(r) ==
  [r EXCEPT !.message_ = IF args.num_entries # num_
                         THEN "(" \o ToString(args.num_entries) \o " ops)" ELSE @]

\* Write, up to its loop: a FRESH benchmark deletes the handle, destroys the
\* database, opens it again and restarts the recorder
WriteEnter ==
  /\ pc = "Write"
  /\ i' = 0
  /\ IF args.state = "FRESH"
     THEN /\ store' = EmptyStore
          /\ mem' = FALSE
          /\ levels' = NoFiles
          /\ compacted' = NoCompact
          /\ seqVisited' = NoSeq
          /\ engine_calls' = engine_calls + 2
          /\ \/ /\ db_' = "open"
                /\ reopens' = Append(reopens, [at |-> Len(writes), opened |-> TRUE,
                                               size |-> Cardinality(DOMAIN store')])
                /\ pc' = "WriteLoop"
                /\ starts' = starts + 1
                /\ SetRecorder(WriteMessage(Start(Recorder)))
                /\ UNCHANGED exit_status
             \/ /\ db_' = "NULL"
                /\ reopens' = Append(reopens, [at |-> Len(writes), opened |-> FALSE,
                                               size |-> Cardinality(DOMAIN store')])
                /\ Exit("exit1")
                /\ UNCHANGED <<starts, recorder>>
     ELSE /\ pc' = "WriteLoop"
          /\ SetRecorder(WriteMessage(Recorder))
          /\ UNCHANGED <<store, seqVisited, engine_calls, db_, starts, exit_status,
                         mem, levels, compacted, reopens>>
  /\ UNCHANGED <<flags, benchmarks, phase_no, name, args, iter, cache_, num_,
                 heap_counter_, pos_, rand_, ops, writes, visited, atStart, prev,
                 stops, lastStop, warned, released, genlog,
                 max_level_with_files, not_found>>

\* the loop index taken one too far
WriteKeys_FromOne == IF args.order = "SEQUENTIAL" THEN {i + 1} ELSE RandomKeys

\* const int k = (order == SEQUENTIAL) ? i : (rand_.Next() % FLAGS_num)
WriteKeys == IF args.order = "SEQUENTIAL" THEN {i} ELSE RandomKeys

\* the status of the write ignored: the loop goes on
PutError_Ignored ==
  /\ i' = i + 1
  /\ UNCHANGED <<pc, exit_status, store, seqVisited, ops>>

\* if (!s.ok()) { fprintf(stderr, "put error: ..."); exit(1); }
PutError ==
  /\ Exit("exit1")
  /\ UNCHANGED <<store, seqVisited, ops, i>>

\* one iteration of Write's loop
WriteIter ==
  /\ pc = "WriteLoop"
  /\ i < args.num_entries
  /\ \E k \in WriteKeys, gen \in GenerateOutcomes(args.value_size), ok \in BOOLEAN :
       LET key == FormatKey(k)
           batch == <<[key |-> key, value |-> GenerateSlice(args.value_size)]>>
           r == [Recorder EXCEPT !.bytes_ = @ + args.value_size + KeyLen(key)]
       IN /\ rand_' = IF args.order = "SEQUENTIAL" THEN rand_ ELSE rand_ + 1
          /\ mem' = (mem \/ (gen = "ok" /\ ok))
          /\ compacted' = IF gen = "ok" /\ ok THEN NoCompact ELSE compacted
          /\ IF gen # "ok"
             THEN /\ ok
                  /\ Exit(gen)
                  /\ UNCHANGED <<pos_, store, writes, seqVisited, engine_calls, i, ops,
                                 recorder>>
             ELSE /\ pos_' = GeneratePos(args.value_size)
                  /\ writes' = Append(writes, [batch |-> batch, sync |-> args.sync,
                                                ok |-> ok])
                  /\ engine_calls' = engine_calls + 1
                  /\ IF ok
                     THEN /\ store' = ApplyBatch(store, batch)
                          /\ seqVisited' = NoSeq
                          /\ SetRecorder(FinishedSingleOp(r))
                          /\ ops' = ops + 1
                          /\ i' = i + 1
                          /\ UNCHANGED <<pc, exit_status>>
                     ELSE /\ SetRecorder(r)
                          /\ PutError
  /\ UNCHANGED <<flags, benchmarks, phase_no, name, args, iter, cache_, db_, num_,
                 heap_counter_, visited, atStart, prev, starts, stops, lastStop,
                 warned, released, genlog,
                 levels, max_level_with_files, reopens, not_found>>

\* ReadSequential and ReadReverse, up to the loop: NewIterator and the seek
ReadSequentialEnter ==
  /\ pc = "ReadSequential"
  /\ i' = 0
  /\ iter' = SeekToFirst
  /\ engine_calls' = engine_calls + 2
  /\ pc' = "ReadSequentialLoop"
  /\ UNCHANGED <<flags, benchmarks, phase_no, name, args, exit_status, recorder,
                 members, store, ops, writes, visited, seqVisited, atStart, prev,
                 starts, stops, lastStop, warned, released, genlog,
                 lsm, reopens, not_found>>

ReadReverseEnter ==
  /\ pc = "ReadReverse"
  /\ i' = 0
  /\ iter' = SeekToLast
  /\ engine_calls' = engine_calls + 2
  /\ pc' = "ReadReverseLoop"
  /\ UNCHANGED <<flags, benchmarks, phase_no, name, args, exit_status, recorder,
                 members, store, ops, writes, visited, seqVisited, atStart, prev,
                 starts, stops, lastStop, warned, released, genlog,
                 lsm, reopens, not_found>>

\* the body without the value's size
ReadEntry_KeyOnly ==
  /\ SetRecorder(FinishedSingleOp([Recorder EXCEPT !.bytes_ = @ + Len(IterKey(iter))]))
  /\ ops' = ops + 1
  /\ visited' = Append(visited, IterKey(iter))
  /\ i' = i + 1
  /\ engine_calls' = engine_calls + 1

\* the body both loops share: bytes_ += key().size() + value().size();
\* FinishedSingleOp(); ++i
ReadEntry ==
  /\ SetRecorder(FinishedSingleOp(
       [Recorder EXCEPT !.bytes_ = @ + Len(IterKey(iter)) + IterValue(iter).len]))
  /\ ops' = ops + 1
  /\ visited' = Append(visited, IterKey(iter))
  /\ i' = i + 1
  /\ engine_calls' = engine_calls + 1

\* for (...; i < num_ && iter->Valid(); iter->Next())
ReadSequentialIter ==
  /\ pc = "ReadSequentialLoop"
  /\ i < num_ /\ IterValid(iter)
  /\ ReadEntry
  /\ iter' = iter + 1
  /\ UNCHANGED <<flags, benchmarks, phase_no, name, args, pc, exit_status, members,
                 store, writes, seqVisited, atStart, prev, starts, stops, lastStop,
                 warned, released, genlog,
                 lsm, reopens, not_found>>

\* the reverse loop stepping with Next(): it leaves the last key at once
ReadReverseIter_Next ==
  /\ pc = "ReadReverseLoop"
  /\ i < num_ /\ IterValid(iter)
  /\ ReadEntry
  /\ iter' = iter + 1
  /\ UNCHANGED <<flags, benchmarks, phase_no, name, args, pc, exit_status, members,
                 store, writes, seqVisited, atStart, prev, starts, stops, lastStop,
                 warned, released, genlog,
                 lsm, reopens, not_found>>

\* for (...; i < num_ && iter->Valid(); iter->Prev())
ReadReverseIter ==
  /\ pc = "ReadReverseLoop"
  /\ i < num_ /\ IterValid(iter)
  /\ ReadEntry
  /\ iter' = iter - 1
  /\ UNCHANGED <<flags, benchmarks, phase_no, name, args, pc, exit_status, members,
                 store, writes, seqVisited, atStart, prev, starts, stops, lastStop,
                 warned, released, genlog,
                 lsm, reopens, not_found>>

\* the loop ending the run when Get finds no value
ReadRandom_FatalMiss ==
  /\ pc = "ReadRandom"
  /\ i < num_
  /\ \E k \in RandomKeys :
       LET key == FormatKey(k)
       IN /\ rand_' = rand_ + 1
          /\ engine_calls' = engine_calls + 1
          /\ not_found' = IF key \in Keys THEN not_found ELSE not_found + 1
          /\ SetRecorder(FinishedSingleOp(Recorder))
          /\ ops' = ops + 1
          /\ i' = i + 1
          /\ IF key \in Keys THEN UNCHANGED <<pc, exit_status>> ELSE Exit("exit1")
  /\ UNCHANGED <<flags, benchmarks, phase_no, name, args, iter, cache_,
                 db_, num_, heap_counter_, pos_, store, writes, visited, seqVisited,
                 atStart, prev, starts, stops, lastStop, warned, released, genlog,
                 lsm, reopens>>

\* one iteration of ReadRandom's loop: the key may be found or not, and the
\* result of Get is not looked at
ReadRandom ==
  /\ pc = "ReadRandom"
  /\ i < num_
  /\ \E k \in RandomKeys :
       LET key == FormatKey(k)
       IN /\ rand_' = rand_ + 1
          /\ engine_calls' = engine_calls + 1
          /\ not_found' = IF key \in Keys THEN not_found ELSE not_found + 1
          /\ SetRecorder(FinishedSingleOp(Recorder))
          /\ ops' = ops + 1
          /\ i' = i + 1
  /\ UNCHANGED <<flags, benchmarks, phase_no, name, args, pc, iter, exit_status, cache_,
                 db_, num_, heap_counter_, pos_, store, writes, visited, seqVisited,
                 atStart, prev, starts, stops, lastStop, warned, released, genlog,
                 lsm, reopens>>

\* Compact, up to its second loop: the memtable is flushed, and the levels
\* from 1 on are asked for their number of files.  The keys and values of the
\* database stay as they are.
Compact ==
  /\ pc = "Compact"
  /\ levels' = CompactMemTable(levels, mem)
  /\ max_level_with_files' = MaxLevelWithFiles(levels')
  /\ mem' = FALSE
  /\ engine_calls' = engine_calls + 1 + (kNumLevels - 1)
  /\ i' = 0
  /\ pc' = "CompactLoop"
  /\ UNCHANGED <<flags, benchmarks, phase_no, name, args, iter, exit_status, recorder,
                 members, store, ops, writes, visited, seqVisited, atStart, prev,
                 starts, stops, lastStop, warned, released, genlog, compacted,
                 reopens, not_found>>

\* the loop going on to the level that has files, too
CompactMore_Inclusive == i <= max_level_with_files

\* for (int level = 0; level < max_level_with_files; level++)
CompactMore == i < max_level_with_files

\* one iteration of Compact's second loop: TEST_CompactRange(level, "", "~")
CompactLevel ==
  /\ pc = "CompactLoop"
  /\ CompactMore
  /\ levels' \in CompactRange(levels, i, <<>>, Tilde)
  /\ engine_calls' = engine_calls + 1
  /\ i' = i + 1
  /\ UNCHANGED <<flags, benchmarks, phase_no, name, args, pc, iter, exit_status,
                 recorder, members, store, ops, writes, visited, seqVisited, atStart,
                 prev, starts, stops, lastStop, warned, released, genlog, mem,
                 max_level_with_files, compacted, reopens, not_found>>

\* HeapProfile: the file cannot be made, the port has no heap profile, or the
\* profile is written
HeapProfile ==
  /\ pc = "HeapProfile"
  /\ heap_counter_' = heap_counter_ + 1
  /\ \E m \in {"IO error", "not supported", ""} :
       message_' = IF m = "" THEN message_ ELSE m
  /\ pc' = "Returned"
  /\ UNCHANGED <<flags, benchmarks, phase_no, name, args, i, iter, exit_status, bytes_,
                 hist_, done_, next_report_, cache_, db_, num_, pos_, rand_, store, ops,
                 writes, visited, seqVisited, atStart, prev, starts, stops, lastStop,
                 warned, released, engine_calls, genlog,
                 reported, lsm, reopens, not_found>>

\* the else branch going back to the loop head past Stop
UnknownBenchmark_NoStop ==
  /\ pc = "Unknown"
  /\ warned' = warned + 1
  /\ pc' = "next"
  /\ UNCHANGED <<flags, benchmarks, phase_no, name, args, i, iter, exit_status, recorder,
                 members, store, ops, writes, visited, seqVisited, atStart, prev,
                 starts, stops, lastStop, released, engine_calls, genlog,
                 lsm, reopens, not_found>>

\* the else branch ending the run
UnknownBenchmark_Fatal ==
  /\ pc = "Unknown"
  /\ warned' = warned + 1
  /\ Exit("exit1")
  /\ UNCHANGED <<flags, benchmarks, phase_no, name, args, i, iter, recorder,
                 members, store, ops, writes, visited, seqVisited, atStart, prev,
                 starts, stops, lastStop, released, engine_calls, genlog,
                 lsm, reopens, not_found>>

\* the else branch of Run's if-chain: fprintf(stderr, "unknown benchmark ...")
UnknownBenchmark ==
  /\ pc = "Unknown"
  /\ warned' = warned + 1
  /\ pc' = "Returned"
  /\ UNCHANGED <<flags, benchmarks, phase_no, name, args, i, iter, exit_status, recorder,
                 members, store, ops, writes, visited, seqVisited, atStart, prev,
                 starts, stops, lastStop, released, engine_calls, genlog,
                 lsm, reopens, not_found>>

\* the handler has returned to Run
HandlerReturned ==
  \/ pc = "Returned"
  \/ pc = "WriteLoop" /\ ~(i < args.num_entries)
  \/ pc \in {"ReadSequentialLoop", "ReadReverseLoop"} /\ ~(i < num_ /\ IterValid(iter))
  \/ pc = "ReadRandom" /\ ~(i < num_)
  \/ pc = "CompactLoop" /\ ~CompactMore

\* Stop(name), and back to the loop head
StopPhase ==
  /\ HandlerReturned
  /\ SetRecorder(Stop(Recorder))
  /\ stops' = stops + 1
  /\ lastStop' = name
  /\ seqVisited' = IF name = "readseq" THEN [valid |-> TRUE, keys |-> visited]
                   ELSE seqVisited
  /\ compacted' = IF name = "compact" THEN [valid |-> TRUE, levels |-> levels]
                  ELSE compacted
  /\ max_level_with_files' = 0
  /\ starts' = 0
  /\ pc' = "next"
  /\ UNCHANGED <<flags, benchmarks, phase_no, name, args, i, iter, exit_status, members,
                 store, ops, writes, visited, atStart, prev, warned, released,
                 engine_calls, genlog,
                 mem, levels, reopens, not_found>>

\* Run returns, main returns 0 and the Benchmark object goes out of scope
MainReturn ==
  /\ pc = "next"
  /\ benchmarks = "NULL"
  /\ Destructor
  /\ Exit("exit0")
  /\ UNCHANGED <<flags, benchmarks, phase_no, name, args, i, iter, recorder, num_,
                 heap_counter_, pos_, rand_, store, ops, writes, visited, seqVisited,
                 atStart, prev, starts, stops, lastStop, warned, engine_calls,
                 genlog,
                 lsm, reopens, not_found>>

Next ==
  \/ RunOpen
  \/ NextPhase
  \/ WriteEnter
  \/ WriteIter
  \/ ReadSequentialEnter
  \/ ReadSequentialIter
  \/ ReadReverseEnter
  \/ ReadReverseIter
  \/ ReadRandom
  \/ Compact
  \/ CompactLevel
  \/ HeapProfile
  \/ UnknownBenchmark
  \/ StopPhase
  \/ MainReturn

Spec == Init /\ [][Next]_vars

(***************************************************************************)
(* RandomGenerator on its own: any sequence of Generate calls, of any      *)
(* length from 0 to one more than the buffer holds.                        *)
(***************************************************************************)
InitGen ==
  /\ FLAGS_num = 0
  /\ FLAGS_value_size = 1
  /\ FLAGS_histogram = FALSE
  /\ Constructed
  /\ pc = "Generate"

\* Slice Generate(int len)
Generate ==
  /\ pc = "Generate"
  /\ Len(genlog) < MaxCalls
  /\ \E len \in 0..(DataSize + 1) : \E gen \in GenerateOutcomes(len) :
       /\ genlog' = Append(genlog, [len |-> len, from |-> pos_, outcome |-> gen,
                                    slice |-> GenerateSlice(len)])
       /\ IF gen = "ok"
          THEN /\ pos_' = GeneratePos(len)
               /\ UNCHANGED <<pc, exit_status>>
          ELSE /\ Exit(gen)
               /\ UNCHANGED pos_
  /\ UNCHANGED <<flags, benchmarks, phase_no, name, args, i, iter, cache_, db_, num_,
                 heap_counter_, rand_, recorder, store, ops, writes, visited, seqVisited,
                 atStart, prev, starts, stops, lastStop, warned, released,
                 engine_calls,
                 lsm, reopens, not_found>>

NextGen == Generate

SpecGen == InitGen /\ [][NextGen]_vars

(***************************************************************************)
(* Compact on its own: fillseq of one key, during which the engine flushes *)
(* and merges as it sees fit, and then compact as often as the list is     *)
(* long.  The engine's own work is taken to go on while the driver writes  *)
(* and to have ended when the write benchmark stops.                       *)
(***************************************************************************)
InitCompact ==
  /\ FLAGS_num = 1
  /\ FLAGS_value_size = 1
  /\ FLAGS_histogram = FALSE
  /\ Constructed
  /\ pc = "Run"

\* Run's loop head for the list fillseq,compact,compact,...
CompactPhases ==
  /\ NextPhase
  /\ name' = IF phase_no = 0 THEN "fillseq" ELSE "compact"

\* the engine's background work during a write benchmark, all of it as one
\* step: the memtable is flushed or not, and the files lie at the levels in
\* any way that keeps the data somewhere
EngineWork ==
  /\ pc = "WriteLoop"
  /\ Keys # {}
  /\ mem /\ levels = NoFiles
  /\ \E m \in BOOLEAN, lv \in [Levels -> 0..MaxFiles] :
       /\ m \/ \E l \in Levels : lv[l] > 0
       /\ <<m, lv>> # <<mem, levels>>
       /\ mem' = m
       /\ levels' = lv
  /\ compacted' = NoCompact
  /\ UNCHANGED <<flags, benchmarks, phase_no, name, args, pc, i, iter, exit_status,
                 recorder, members, store, ops, writes, visited, seqVisited, atStart,
                 prev, starts, stops, lastStop, warned, released, engine_calls, genlog,
                 max_level_with_files, reopens, not_found>>

NextCompact ==
  \/ RunOpen
  \/ CompactPhases
  \/ WriteEnter
  \/ WriteIter
  \/ EngineWork
  \/ Compact
  \/ CompactLevel
  \/ StopPhase
  \/ MainReturn

SpecCompact == InitCompact /\ [][NextCompact]_vars

(***************************************************************************)
(* The recorder on its own: Start, and FinishedSingleOp any number of      *)
(* times, and Start again.                                                 *)
(***************************************************************************)
InitProgress ==
  /\ FLAGS_num = 0
  /\ FLAGS_value_size = 1
  /\ FLAGS_histogram = FALSE
  /\ Constructed
  /\ pc = "Progress"

\* void Start()
ProgressStart ==
  /\ pc = "Progress"
  /\ starts < MaxStarts
  /\ SetRecorder(Start(Recorder))
  /\ starts' = starts + 1
  /\ ops' = 0
  /\ UNCHANGED <<flags, benchmarks, phase_no, name, args, pc, i, iter, exit_status,
                 members, store, writes, visited, seqVisited, atStart, prev, stops,
                 lastStop, warned, released, engine_calls, genlog, lsm, reopens,
                 not_found>>

\* void FinishedSingleOp()
ProgressOp ==
  /\ pc = "Progress"
  /\ starts >= 1
  /\ done_ < MaxDone
  /\ SetRecorder(FinishedSingleOp(Recorder))
  /\ ops' = ops + 1
  /\ UNCHANGED <<flags, benchmarks, phase_no, name, args, pc, i, iter, exit_status,
                 members, store, writes, visited, seqVisited, atStart, prev, starts,
                 stops, lastStop, warned, released, engine_calls, genlog, lsm, reopens,
                 not_found>>

NextProgress ==
  \/ ProgressStart
  \/ ProgressOp

SpecProgress == InitProgress /\ [][NextProgress]_vars

(***************************************************************************)
(* Properties                                                              *)
(***************************************************************************)
\* Stop(n) has printed the line of benchmark n, and no later benchmark began
Stopped(n) ==
  /\ name = n
  /\ lastStop = n
  /\ stops = phase_no
  /\ pc = "next" \/ exit_status = "exit0"

FillNames == {"fillseq", "fillrandom", "fillsync", "fill100K"}

\* the number a string of decimal digits denotes
RECURSIVE DecimalValue(_)
DecimalValue(s) ==
  IF s = <<>> THEN 0
  ELSE 10 * DecimalValue(SubSeq(s, 1, Len(s) - 1)) + s[Len(s)]

IsDecimal(s) == \A p \in 1..Len(s) : s[p] \in 0..9

Reverse(s) == [p \in 1..Len(s) |-> s[Len(s) + 1 - p]]

\* the keys of the writes of this benchmark, in the order of the calls
WrittenKeys == [j \in 1..Len(writes) |-> writes[j].batch[1].key]

\* C1: the j-th write of fillseq (j = 1, 2, ...) has the key that is j - 1 in
\* decimal, padded with zeros to 16 characters, and when fillseq stops it has
\* issued exactly N writes.
C1_FillSeqKeys ==
  name = "fillseq" =>
    /\ \A j \in 1..Len(writes) :
         /\ Len(writes[j].batch) = 1
         /\ Len(WrittenKeys[j]) = 16
         /\ IsDecimal(WrittenKeys[j])
         /\ DecimalValue(WrittenKeys[j]) = j - 1
    /\ Stopped("fillseq") => Len(writes) = FLAGS_num

C1_Witness == Stopped("fillseq") /\ Len(writes) >= 2

\* C2, as claimed: an overwrite that runs after a fill benchmark leaves the
\* number of distinct keys as it found it.
C2_AfterAnyFill ==
  (name = "overwrite" /\ prev \in FillNames) =>
    Cardinality(Keys) = Cardinality(DOMAIN atStart.store)

\* C2, amended: an overwrite never removes a key, and after fillseq, which
\* wrote every key 0..N-1, it leaves the set of keys as it found it.
C2_AfterFillSeq ==
  name = "overwrite" =>
    /\ DOMAIN atStart.store \subseteq Keys
    /\ prev = "fillseq" =>
         /\ Keys = DOMAIN atStart.store
         /\ Cardinality(Keys) = FLAGS_num

C2_Witness ==
  /\ Stopped("overwrite")
  /\ prev = "fillseq"
  /\ Len(writes) >= 2
  /\ store # atStart.store

\* C3: when readreverse stops and no write came after the last readseq, it has
\* visited the keys readseq visited, in the reverse order.
C3_ReverseOfSeq ==
  (Stopped("readreverse") /\ seqVisited.valid) =>
    /\ visited = Reverse(seqVisited.keys)
    /\ {visited[p] : p \in 1..Len(visited)} = Keys

C3_Witness ==
  /\ Stopped("readreverse")
  /\ seqVisited.valid
  /\ Len(visited) >= 2

\* C4: when a readseq that follows fillseq stops, it has recorded N
\* operations, visited the keys 0..N-1 in ascending order, and bytes_ is
\* N * (16 + V).
C4_FillSeqReadSeq ==
  (Stopped("readseq") /\ prev = "fillseq") =>
    /\ ops = FLAGS_num
    /\ Len(visited) = FLAGS_num
    /\ \A p \in 1..Len(visited) : DecimalValue(visited[p]) = p - 1
    /\ bytes_ = FLAGS_num * (16 + FLAGS_value_size)

C4_Witness ==
  /\ Stopped("readseq")
  /\ prev = "fillseq"
  /\ ops >= 2
  /\ FLAGS_value_size >= 2

\* C5: when a benchmark stops, the histogram holds as many samples as
\* FinishedSingleOp was called for the benchmark if FLAGS_histogram is set,
\* and none otherwise.
C5_HistogramCount ==
  (stops > 0 /\ Stopped(name)) => hist_ = IF FLAGS_histogram THEN ops ELSE 0

C5_Witness ==
  /\ Stopped("fillrandom")
  /\ phase_no >= 2
  /\ FLAGS_histogram
  /\ hist_ >= 2

\* C6, as claimed: a Generate call of a length the buffer can hold returns
\* that many bytes from inside the buffer, from offset 0 when the bytes left
\* after the cursor do not suffice, and a call ends the process only when its
\* length is more than the buffer holds.
C6_GenerateContract ==
  \A j \in 1..Len(genlog) :
    LET c == genlog[j]
    IN /\ c.len <= DataSize =>
            /\ c.outcome = "ok"
            /\ c.slice.len = c.len
            /\ c.slice.off >= 0
            /\ c.slice.off + c.slice.len <= DataSize
            /\ c.from + c.len > DataSize => c.slice.off = 0
       /\ c.outcome # "ok" => c.len > DataSize

\* C7: once DB::Write has returned a failure, that write is the last one, the
\* process has ended with exit status 1, and Stop has not been called for the
\* benchmark that failed.
C7_WriteFailureFatal ==
  \A j \in 1..Len(writes) :
    ~writes[j].ok =>
      /\ j = Len(writes)
      /\ pc = "exited"
      /\ exit_status = "exit1"
      /\ stops = phase_no - 1
      /\ name \in WriteNames

C7_Witness ==
  /\ Len(writes) >= 2
  /\ ~writes[Len(writes)].ok
  /\ phase_no >= 2

HandlerPlaces(n) ==
  IF n \in WriteNames THEN {"Write", "WriteLoop"}
  ELSE IF n = "readseq" THEN {"ReadSequential", "ReadSequentialLoop"}
  ELSE IF n = "readreverse" THEN {"ReadReverse", "ReadReverseLoop"}
  ELSE IF n = "readrandom" THEN {"ReadRandom"}
  ELSE IF n = "compact" THEN {"Compact", "CompactLoop"}
  ELSE IF n = "heapprofile" THEN {"HeapProfile", "Returned"}
  ELSE {"Unknown", "Returned"}

InHandler == pc \notin {"Run", "next", "exited", "Generate", "Progress"}

HighestLevel ==
  LET S == {1} \cup {l \in Levels : l >= 1 /\ levels[l] > 0}
  IN CHOOSE l \in S : \A m \in S : m <= l

PutKeys == {writes[j].batch[1].key : j \in {q \in 1..Len(writes) : writes[q].ok}}

\* C12: a benchmark destroys the database and opens it again, empty, exactly
\* when it is one of fillseq, fillrandom, fillsync and fill100K: once, before
\* its first write; every other benchmark does so never.  When a fill
\* benchmark stops the store holds the keys that benchmark has put and no
\* other, and overwrite keeps every key it found.
C12_FreshOnly ==
  phase_no >= 1 =>
    /\ Len(reopens) = IF name \in FillNames /\ pc # "Write" THEN 1 ELSE 0
    /\ \A j \in 1..Len(reopens) :
         /\ reopens[j].at = 0
         /\ reopens[j].size = 0
         /\ ~reopens[j].opened => exit_status = "exit1" /\ writes = <<>>
    /\ name \in FillNames /\ pc # "Write" => Keys = PutKeys
    /\ name \notin FillNames => DOMAIN atStart.store \subseteq Keys

C12_Witness ==
  /\ Stopped("fillrandom")
  /\ atStart.store # EmptyStore
  /\ DOMAIN atStart.store # Keys
  /\ reopens = <<[at |-> 0, opened |-> TRUE, size |-> 0]>>
  /\ Len(writes) >= 2

\* C13: readrandom looks up one key per iteration and records one operation
\* for it, whether the key is in the store or not; no lookup ends the run;
\* the store and bytes_ stay as they were when the benchmark began; and when
\* readrandom stops it has made exactly N lookups and recorded exactly N
\* operations.
C13_ReadRandomFrame ==
  name = "readrandom" =>
    /\ store = atStart.store
    /\ bytes_ = 0
    /\ writes = <<>>
    /\ engine_calls = i
    /\ ops = i
    /\ not_found <= i
    /\ i <= FLAGS_num
    /\ pc = "exited" => exit_status = "exit0"
    /\ Stopped("readrandom") => ops = FLAGS_num /\ engine_calls = FLAGS_num

C13_Witness ==
  /\ Stopped("readrandom")
  /\ ops >= 2
  /\ not_found >= 1
  /\ not_found < ops

\* the counts the progress cadence names: 100, 200, ..., 1000, then every
\* 1000 up to 10000, then every 10000 up to 100000, then every 100000
IsReportPoint(n) ==
  /\ n >= 100
  /\ IF n <= 1000 THEN n % 100 = 0
     ELSE IF n <= 10000 THEN n % 1000 = 0
     ELSE IF n <= 100000 THEN n % 10000 = 0
     ELSE n % 100000 = 0

\* C14: the progress line is printed when the count of recorded operations
\* since Start is one of 100, 200, ..., 1000, 2000, ..., 10000, 20000, ...,
\* 100000, 200000, ... and at no other count; after Start the count is 0 and
\* the next line is due at 100.
C14_ProgressCadence ==
  /\ done_ >= 1 => (reported = done_ <=> IsReportPoint(done_))
  /\ reported # 0 => IsReportPoint(reported) /\ reported <= done_
  /\ (starts >= 1 /\ done_ < 100) => next_report_ = 100 /\ reported = 0

C14_Witness ==
  /\ starts = 2
  /\ reported = 200000
  /\ done_ = 200001

Pow10(e) == 10 ^ e

\* the decimal of n, padded with zeros to 16 characters: the character at
\* place p, counted from the left, is the digit of n that weighs 10^(16 - p)
Decimal16(n) ==
  [p \in 1..16 |-> IF 16 - p >= 10 THEN 0 ELSE (n \div Pow10(16 - p)) % 10]

\* for every N, the decimals of the numbers 0 .. N - 1
DecimalsBelow == <<{}>> \o [n \in 1..MaxNum |-> {Decimal16(m) : m \in 0..(n - 1)}]

\* C16: when N > 0, every key of the store is 16 decimal digits that denote
\* a number from 0 to N - 1, so the store holds at most N keys.
C16_KeysInRange ==
  FLAGS_num > 0 =>
    /\ Keys \subseteq DecimalsBelow[FLAGS_num + 1]
    /\ Cardinality(Keys) <= FLAGS_num

C16_Witness ==
  /\ FLAGS_num >= 2
  /\ Cardinality(Keys) = FLAGS_num
  /\ name = "fillrandom"
  /\ phase_no >= 2

====
